---- MODULE Spec2Model ----
(***************************************************************************)
(* State-machine model of SearXNGClient (src/src/searxng_client.ts).       *)
(*                                                                         *)
(* One call of a public entry point (fetch_and_parse_results or            *)
(* search_and_parse) is followed from its invocation to its completion.    *)
(* JavaScript runs every piece of synchronous code between two awaits      *)
(* atomically, so there is one action per await point: the action takes    *)
(* what the awaited operation produced (drawn from a small set) and runs   *)
(* the continuation up to the next await.                                  *)
(*                                                                         *)
(* Spec follows one call of a public entry point.  SpecPair follows two    *)
(* calls of _parse_content that are given the same response and are in     *)
(* flight on the same client at the same time.                             *)
(*                                                                         *)
(* Strings are run-length encoded: a string is a sequence of runs          *)
(* [c |-> symbol, n |-> count].  The symbol " " is whitespace, every other *)
(* symbol is a non-whitespace character (or, in a URL, a token).           *)
(***************************************************************************)
EXTENDS Integers, Sequences, FiniteSets, TLC

VARIABLES
    pc,             \* await point the call is suspended at
    entry,          \* public method that was called
    searched,       \* history: how the search request ended, what search returned
    arg,            \* argument fetch_and_parse_results was called with
    results,        \* fetch_and_parse_results: the array being iterated
    idx,            \* position of the for-of loop (1-based)
    parsedResults,  \* fetch_and_parse_results: parsedResults
    origin,         \* history: input index of each element of parsedResults
    hist,           \* history: what happened to each input item
    retval,         \* completion of the public method
    gets,           \* history: the URLs a content GET was issued for
    \* records about the item being processed, dropped when the loop moves on:
    route,          \* history: content type of the response, the extractor it
                    \* was handed to, what the two markup tiers gave
    racePromise,    \* the promise _parse_content awaits (HTML branch)
    parseMs,        \* history: time the synchronous HTML parse took
    ext,            \* the run of _extract_text_from_pdf
    files,          \* temp files present in /tmp (named by their timestamp)
    now,            \* Date.now(), in ms since the client was constructed
    \* two direct calls of _parse_content on one response (SpecPair):
    given,          \* the response both calls are given
    calls           \* the two calls

vars == <<pc, entry, searched, arg, results, idx, parsedResults, origin, hist, retval,
          gets, route, racePromise, parseMs, ext, files, now, given, calls>>

-----------------------------------------------------------------------------
(* Bounds of the model *)

MaxItems == 2
MaxSearchItems == 1

(* Program constants *)

timeout == 10
parsingTimeout == 15
max_content_length == 50000
pdfExtractionTimeout == 30

-----------------------------------------------------------------------------
(* JavaScript values *)

Undefined == [t |-> "undefined"]
Null      == [t |-> "null"]
Num(n)    == [t |-> "number", n |-> n]
Str(s)    == [t |-> "string", s |-> s]
Obj(f)    == [t |-> "object", f |-> f]
Arr(a)    == [t |-> "array", a |-> a]

TypeOf(v) == IF v.t \in {"null", "array"} THEN "object" ELSE v.t

Truthy(v) ==
    CASE v.t = "undefined" -> FALSE
      [] v.t = "null"      -> FALSE
      [] v.t = "number"    -> v.n # 0
      [] v.t = "string"    -> v.s # <<>>
      [] OTHER             -> TRUE

IsArray(v) == v.t = "array"

\* property read  v[name]  on a non-nullish value
Get(v, name) ==
    IF v.t = "object" /\ name \in DOMAIN v.f THEN v.f[name] ELSE Undefined

\* variant: only the url is copied over
Spread_urlonly(v, name, x) ==
    Obj([k \in {"url", name} |-> IF k = name THEN x ELSE Get(v, "url")])

\* { ...v, [name]: x }
Spread(v, name, x) ==
    Obj([k \in (DOMAIN v.f) \cup {name} |-> IF k = name THEN x ELSE v.f[k]])

-----------------------------------------------------------------------------
(* Completions of a call: a returned value or a thrown error *)

NoCompletion == [k |-> "none"]
Return(v)    == [k |-> "return", v |-> v]
Throw        == [k |-> "throw"]

-----------------------------------------------------------------------------
(* Strings *)

Run(c, n) == [c |-> c, n |-> n]
IsWs(r) == r.c = " "

RECURSIVE StrLen(_)
StrLen(s) == IF s = <<>> THEN 0 ELSE Head(s).n + StrLen(Tail(s))

Min(a, b) == IF a <= b THEN a ELSE b

\* s.slice(0, n)
RECURSIVE Slice(_, _)
Slice(s, n) ==
    IF s = <<>> \/ n <= 0 THEN <<>>
    ELSE IF Head(s).n >= n THEN <<Run(Head(s).c, n)>>
    ELSE <<Head(s)>> \o Slice(Tail(s), n - Head(s).n)

\* s.trim()
TrimStart(s) == IF s # <<>> /\ IsWs(Head(s)) THEN Tail(s) ELSE s
TrimEnd(s) == IF s # <<>> /\ IsWs(s[Len(s)]) THEN SubSeq(s, 1, Len(s) - 1) ELSE s
Trim(s) == TrimEnd(TrimStart(s))

\* s.replace(/\s+/g, ' ')
CollapseWs(s) == [k \in 1..Len(s) |-> IF IsWs(s[k]) THEN Run(" ", 1) ELSE s[k]]

-----------------------------------------------------------------------------
(* new URL(url): the string parses as an absolute URL.  A URL string is a   *)
(* sequence of tokens: a scheme token, an optional "//", a host, a path.    *)

Schemes == {"https:", "http:", "mailto:"}
SpecialSchemes == {"https:", "http:"}

UrlParses(s) ==
    /\ s # <<>>
    /\ Head(s).c \in Schemes
    /\ Head(s).c \in SpecialSchemes =>
          LET rest == Tail(s)
              auth == IF rest # <<>> /\ Head(rest).c = "//" THEN Tail(rest) ELSE rest
          IN  auth # <<>> /\ Head(auth).c \notin {"/", "//", " "}

\* variant: the URL is never parsed
_is_valid_url_lax(url) == TRUE

\* _is_valid_url: true unless the URL constructor throws
_is_valid_url(url) == UrlParses(url.s)

-----------------------------------------------------------------------------
(* Inputs *)

Text(c) == <<Run(c, 1)>>

UrlA == <<Run("https:", 1), Run("//", 1), Run("a.test", 1)>>
UrlB == <<Run("http:", 1), Run("//", 1), Run("b.test", 1), Run("/", 1), Run("doc.pdf", 1)>>
NotAUrl == <<Run("not", 1), Run(" ", 1), Run("a", 1), Run(" ", 1), Run("url", 1)>>
NoHostUrl == <<Run("https:", 1), Run("//", 1)>>

ItemA == Obj([url |-> Str(UrlA), title |-> Str(Text("A"))])
ItemB == Obj([url |-> Str(UrlB), title |-> Str(Text("B")),
              parsed_content |-> Str(Text("stale"))])
ItemNoUrl == Obj([title |-> Str(Text("C"))])
ItemNumUrl == Obj([url |-> Num(42)])
ItemBadUrl == Obj([url |-> Str(NotAUrl), title |-> Str(Text("D"))])
ItemNoHost == Obj([url |-> Str(NoHostUrl)])

\* what a caller may put into the list
Items == {Null, Num(7), ItemNoUrl, ItemNumUrl, ItemBadUrl, ItemNoHost, ItemA, ItemB}

SeqsUpTo(S, n) == UNION {[1..k -> S] : k \in 0..n}

ItemLists == SeqsUpTo(Items, MaxItems)

\* arguments of fetch_and_parse_results: lists, and things that are no list
NonLists == {Null, Undefined, Num(0), Str(Text("x")), Obj([results |-> Arr(<<>>)])}
BatchInputs == NonLists \cup {Arr(l) : l \in ItemLists}

\* response.data of the search request
SearchData ==
    {Null, Str(Text("<html>")), Obj([query |-> Str(Text("q"))]),
     Obj([results |-> Null]), Obj([results |-> Obj([url |-> Str(UrlA)])])}
    \cup {Obj([results |-> Arr(l)]) : l \in SeqsUpTo(Items, MaxSearchItems)}

-----------------------------------------------------------------------------
(* What the network can answer to the GET of a result URL *)

\* texts a document can hold; the long ones exceed max_content_length
ShortText == <<Run("x", 5), Run(" ", 1), Run("x", 5)>>
LongText  == <<Run(" ", 2), Run("x", 60000)>>
LooseText == <<Run(" ", 3), Run("x", 5), Run(" ", 4), Run("x", 5), Run(" ", 2)>>
WideText  == <<Run("x", 30000), Run(" ", 10), Run("x", 30000)>>
BlankText == <<Run(" ", 4)>>

\* response.data: the bytes, described by their size, by what JSDOM and
\* Readability make of them (article) and by the text of their <body> once
\* script, style, nav, footer and header are removed (body)
Doc(size, dom, article, body) ==
    [size |-> size, dom |-> dom, article |-> article, body |-> body]

Article(text) == Obj([textContent |-> Str(text)])

Documents ==
    { Doc("empty", "ok", Null, <<>>),
      Doc("huge", "ok", Null, ShortText),
      Doc("ok", "throws", Null, ShortText),
      Doc("ok", "ok", Article(ShortText), LooseText),
      Doc("ok", "ok", Article(LongText), WideText),
      Doc("ok", "ok", Null, LooseText),
      Doc("ok", "ok", Null, WideText),
      Doc("ok", "ok", Article(<<>>), BlankText),
      Doc("ok", "ok", Null, BlankText) }

\* the content-type header: absent, or a string of tokens
ContentTypes ==
    { Undefined,
      Str(<<Run("text/html", 1)>>),
      Str(<<Run("application/pdf", 1)>>),
      Str(<<Run("Application/PDF", 1)>>),
      Str(<<Run("application/pdf", 1), Run(";", 1), Run(" ", 1), Run("charset=binary", 1)>>) }

Response(ct, data) == [t |-> "response", ct |-> ct, data |-> data]

Responses == {Response(ct, d) : ct \in ContentTypes, d \in Documents}

\* axios.get settles with a response or rejects (network error, bad status)
FetchOutcomes == {[t |-> "error"]} \cup Responses

\* time the server takes to answer, ms
FetchDurations == {5000, 15000}

\* time the synchronous JSDOM / Readability / cheerio pass takes, ms
ParseDurations == {5000, 20000}

\* time pdf2txt.py takes, ms
ExecDurations == {5000, 30000, 40000}

\* what pdf2txt.py writes to stdout and stderr when it exits with status 0
Stdouts == {<<>>, BlankText, <<Run(" ", 1), Run("x", 13), Run(" ", 1)>>, LongText}
Stderrs == {<<>>, Text("warning")}

-----------------------------------------------------------------------------
(* Promises *)

Pending      == [state |-> "pending"]
Fulfilled(v) == [state |-> "fulfilled", value |-> v]
Rejected     == [state |-> "rejected"]

\* variant: a later resolve replaces the value of a settled promise
Resolve_last(p, v) == Fulfilled(v)

\* resolve(v) and reject(e) settle a pending promise and are ignored otherwise
Resolve(p, v) == IF p.state = "pending" THEN Fulfilled(v) ELSE p
Reject(p)     == IF p.state = "pending" THEN Rejected ELSE p

\* Promise.race([a, b]): settles as the first of a, b that is settled
Race(a, b) == IF a.state # "pending" THEN a ELSE b

\* await p
Await(p) == IF p.state = "fulfilled" THEN Return(p.value) ELSE Throw

-----------------------------------------------------------------------------
(* search (lines 26-62) *)

\* the try block: axios.get rejects on a network error, a bad status or
\* after timeout * 1000 ms
search_try(o, d) ==
    IF o.t = "error" \/ d > timeout * 1000 THEN Throw ELSE Return(o.data)

\* the catch block returns { results: [] }
search(o, d) ==
    LET c == search_try(o, d)
    IN  IF c.k = "throw" THEN Return(Obj([results |-> Arr(<<>>)])) ELSE c

-----------------------------------------------------------------------------
(* _fetch_url_content (lines 64-90) *)

_fetch_try(o, d) ==
    IF o.t = "error" \/ d > timeout * 1000 THEN Throw ELSE Return(o)

\* variant: no catch block, the rejection of axios.get propagates
_fetch_url_content_nocatch(o, d) == _fetch_try(o, d)

\* the catch block logs and returns null
_fetch_url_content(o, d) ==
    LET c == _fetch_try(o, d)
    IN  IF c.k = "throw" THEN Return(Null) ELSE c

-----------------------------------------------------------------------------
(* _parse_content (lines 120-205) *)

\* const contentType = response.headers['content-type'] || ''
ContentTypeOf(resp) == IF Truthy(resp.ct) THEN resp.ct ELSE Str(<<>>)

\* contentType.includes('application/pdf')
IsPdfType(contentType) ==
    \E k \in 1..Len(contentType.s) : contentType.s[k].c = "application/pdf"

\* response.data.toString(): a buffer beyond the maximal string length throws
BufferToString(data) ==
    CASE data.size = "huge"  -> Throw
      [] data.size = "empty" -> Return(Str(<<>>))
      [] OTHER               -> Return(Str(Text("<html>")))

\* variant: the text is not truncated
ExtractedContent_noslice(url, text) == Obj([url |-> url, content |-> Str(text)])

\* { url, content: text.slice(0, this.max_content_length) }
ExtractedContent(url, text) ==
    Obj([url |-> url, content |-> Str(Slice(text, max_content_length))])

\* tier 1: let content = article?.textContent (lines 157-160)
Tier1(data) ==
    IF data.article.t \in {"null", "undefined"} THEN Undefined
    ELSE Get(data.article, "textContent")

\* variant: the fallback is taken whatever tier 1 gave
FallbackNeeded_always(content) == TRUE

\* if (!content): the fallback is taken (line 162)
FallbackNeeded(content) == ~Truthy(content)

\* tier 2: $('body').text().replace(/\s+/g, ' ').trim() (lines 166-168)
Tier2(data) == Str(Trim(CollapseWs(data.body)))

\* what each tier gave, for the record
NotRun == [t |-> "notrun"]
Threw  == [t |-> "threw"]
NoRoute == [ct |-> Undefined, to |-> "none", tier1 |-> NotRun, tier2 |-> NotRun]

TierRecord(data) ==
    IF data.dom = "throws" THEN [tier1 |-> Threw, tier2 |-> NotRun]
    ELSE [tier1 |-> Tier1(data),
          tier2 |-> IF FallbackNeeded(Tier1(data)) THEN Tier2(data) ELSE NotRun]

\* the executor of parsingPromise (lines 152-187), run synchronously by the
\* Promise constructor
parsingExecutor(data, url) ==
    IF data.dom = "throws" THEN Reject(Pending)
    ELSE
      LET tier1   == Tier1(data)
          content == IF FallbackNeeded(tier1) THEN Tier2(data) ELSE tier1
          p1      == IF ~Truthy(content) THEN Resolve(Pending, Null) ELSE Pending
      IN  \* no return after resolve(null): the executor goes on
          IF content.t # "string" THEN Reject(p1)
          ELSE Resolve(p1, ExtractedContent(url, content.s))

\* variant: the timer runs while the document is parsed, so that a parse of
\* more than parsingTimeout seconds loses the race
parsingRace_deadline(data, url, ms) ==
    IF ms > parsingTimeout * 1000 THEN Fulfilled(Null)
    ELSE Race(parsingExecutor(data, url), Pending)

\* Promise.race([parsingPromise, timeoutPromise]) (lines 151-199): the parse,
\* which took ms, has run inside the constructor of parsingPromise before the
\* timer of timeoutPromise is armed
parsingRace(data, url, ms) == Race(parsingExecutor(data, url), Pending)

\* return await Promise.race([...]) inside try / catch (lines 199-203)
_parse_html_result(p) ==
    LET c == Await(p) IN IF c.k = "throw" THEN Return(Null) ELSE c

\* the PDF branch once _extract_text_from_pdf has completed (lines 126-139)
_parse_pdf_result(c, url) ==
    IF c.k = "throw" THEN Return(Null)
    ELSE IF Truthy(c.v) THEN Return(ExtractedContent(url, c.v.s))
    ELSE Return(Null)

-----------------------------------------------------------------------------
(* _extract_text_from_pdf (lines 92-118) *)

\* proc is the pdf2txt.py subprocess: "none" before execAsync has launched it,
\* then "running" until it exits by itself; no code of the client ends it
ExtStart(path) ==
    [path |-> path, wrote |-> FALSE, exec |-> "none", proc |-> "none",
     stdout |-> <<>>, cleanup |-> "none", ret |-> NoCompletion]

NoExt == ExtStart(-1)

\* variant: the error is rethrown
_extract_catch_rethrow(c) == c

\* the catch block logs and returns null
_extract_catch(c) == IF c.k = "throw" THEN Return(Null) ELSE c

\* exit statuses of the converter; a command that cannot be launched rejects too
ExecOutcomes ==
    {[t |-> "exit", code |-> 0, stdout |-> so, stderr |-> se] :
        so \in Stdouts, se \in Stderrs}
    \cup {[t |-> "exit", code |-> 1], [t |-> "spawn_error"]}

\* which side of Promise.race([execAsync, timer]) settles first
RaceWinners(d) ==
    IF d < pdfExtractionTimeout * 1000 THEN {"exec"}
    ELSE IF d > pdfExtractionTimeout * 1000 THEN {"timer"}
    ELSE {"exec", "timer"}

-----------------------------------------------------------------------------
(* fetch_and_parse_results (lines 207-241) *)

\* the guard of lines 208-211 and what the method returns when it holds
IsMalformedBatch(a) == ~Truthy(a) \/ ~IsArray(a)

\* variant: a malformed batch is reported by throwing
MalformedBatchReturn_throw == Throw

MalformedBatchReturn == Return(Arr(<<>>))

\* the two guards of the loop body (lines 216-225)
ItemIsValid(result) ==
    /\ Truthy(result)
    /\ TypeOf(result) = "object"
    /\ LET url == Get(result, "url")
       IN  TypeOf(url) = "string" /\ _is_valid_url(url)

\* variant: an item that fails a guard ends the loop (break for continue)
NextValid_break(rs, j) ==
    IF j > Len(rs) THEN j
    ELSE IF ItemIsValid(rs[j]) THEN j
    ELSE Len(rs) + 1

\* the loop, run from position j up to the first item that passes the guards
RECURSIVE NextValid(_, _)
NextValid(rs, j) ==
    IF j > Len(rs) THEN j
    ELSE IF ItemIsValid(rs[j]) THEN j
    ELSE NextValid(rs, j + 1)

\* variant: the enriched item is put in front (unshift for push)
Attach_unshift(pr, result, c) ==
    IF c.k = "return" /\ Truthy(c.v) /\ Truthy(Get(c.v, "content"))
    THEN <<Spread(result, "parsed_content", Get(c.v, "content"))>> \o pr
    ELSE pr

\* variant: the item is pushed whatever _parse_content returned
Attach_always(pr, result, c) ==
    IF c.k = "return"
    THEN Append(pr, Spread(result, "parsed_content",
                           IF Truthy(c.v) THEN Get(c.v, "content") ELSE Null))
    ELSE pr

\* lines 231-233 and the catch of line 235, c being how _parse_content completed
Attach(pr, result, c) ==
    IF c.k = "return" /\ Truthy(c.v) /\ Truthy(Get(c.v, "content"))
    THEN Append(pr, Spread(result, "parsed_content", Get(c.v, "content")))
    ELSE pr

NoHist == [fetches |-> 0, fetch |-> "none", parse |-> "none"]

FetchKind(c) ==
    IF c.k = "throw" THEN "threw" ELSE IF Truthy(c.v) THEN "response" ELSE "null"

ParseKind(c) ==
    IF c.k = "throw" THEN "threw" ELSE IF Truthy(c.v) THEN "value" ELSE "null"

-----------------------------------------------------------------------------
(* search_and_parse (lines 252-275) *)

\* the two shape checks of lines 257-265
SearchShapeOk(searchResults) ==
    /\ Truthy(searchResults)
    /\ TypeOf(searchResults) = "object"
    /\ Truthy(Get(searchResults, "results"))
    /\ IsArray(Get(searchResults, "results"))

\* variant: a bare return
InvalidShapeReturn_bare == Return(Undefined)

\* what search_and_parse returns when a shape check fails
InvalidShapeReturn == Return(Arr(<<>>))

\* the catch block of lines 271-274
search_and_parse_catch(c) == IF c.k = "throw" THEN Return(Arr(<<>>)) ELSE c

\* how the public method e completes when fetch_and_parse_results completed as c
PublicReturn(e, c) == IF e = "search_and_parse" THEN search_and_parse_catch(c) ELSE c

-----------------------------------------------------------------------------
(* Initial state: the client is constructed, nothing was called *)

\* the client just constructed, no call made yet
InitClient ==
    /\ pc = "idle"
    /\ entry = "none"
    /\ searched = [k |-> "none"]
    /\ arg = Undefined
    /\ results = <<>>
    /\ idx = 0
    /\ parsedResults = <<>>
    /\ origin = <<>>
    /\ hist = <<>>
    /\ retval = NoCompletion
    /\ gets = {}
    /\ route = NoRoute
    /\ racePromise = Pending
    /\ parseMs = 0
    /\ ext = NoExt
    /\ files = {}
    /\ now = 0

Init ==
    /\ InitClient
    /\ given = Undefined
    /\ calls = <<>>

-----------------------------------------------------------------------------
(* Continuations shared by the actions *)

\* the records kept about the parse of the item being processed
Records == [racePromise |-> racePromise, parseMs |-> parseMs, ext |-> ext]

NoRecords == [racePromise |-> Pending, parseMs |-> 0, ext |-> NoExt]

\* variant: the GET of the valid item after the next one is issued as well
Loop_prefetch(e, rs, j, pr, org, h, g) ==
    LET n  == NextValid(rs, j)
        n2 == NextValid(rs, n + 1)
        k  == IF n > Len(rs) THEN g ELSE NoRecords
    IN  /\ idx' = n
        /\ parsedResults' = pr
        /\ origin' = org
        /\ route' = NoRoute
        /\ racePromise' = k.racePromise
        /\ parseMs' = k.parseMs
        /\ ext' = k.ext
        /\ IF n > Len(rs)
           THEN /\ pc' = "done"
                /\ retval' = PublicReturn(e, Return(Arr(pr)))
                /\ hist' = h
                /\ gets' = gets
           ELSE /\ pc' = "fetch"
                /\ retval' = retval
                /\ hist' = [m \in DOMAIN h |->
                               IF m = n \/ m = n2
                               THEN [h[m] EXCEPT !.fetches = @ + 1] ELSE h[m]]
                /\ gets' = gets \cup {Get(rs[n], "url")}

\* the for-of loop of fetch_and_parse_results resumed at position j: it runs
\* until the next await (the GET of the next valid item) or to the return.
\* g are the records of the item just left: they are dropped when the loop
\* enters another iteration and stay when it returns. route describes a
\* _parse_content call in progress and is cleared once the call has returned.
Loop(e, rs, j, pr, org, h, g) ==
    LET n == NextValid(rs, j)
        k == IF n > Len(rs) THEN g ELSE NoRecords
    IN  /\ idx' = n
        /\ parsedResults' = pr
        /\ origin' = org
        /\ route' = NoRoute
        /\ racePromise' = k.racePromise
        /\ parseMs' = k.parseMs
        /\ ext' = k.ext
        /\ IF n > Len(rs)
           THEN /\ pc' = "done"
                /\ retval' = PublicReturn(e, Return(Arr(pr)))
                /\ hist' = h
                /\ gets' = gets
           ELSE /\ pc' = "fetch"
                /\ retval' = retval
                /\ hist' = [h EXCEPT ![n].fetches = @ + 1]
                /\ gets' = gets \cup {Get(rs[n], "url")}

\* fetch_and_parse_results called with a (lines 207-213)
EnterFetchAndParse(e, a) ==
    /\ arg' = a
    /\ IF IsMalformedBatch(a)
       THEN /\ pc' = "done"
            /\ retval' = PublicReturn(e, MalformedBatchReturn)
            /\ UNCHANGED <<results, idx, parsedResults, origin, hist, gets,
                           route, racePromise, parseMs, ext>>
       ELSE /\ results' = a.a
            /\ Loop(e, a.a, 1, <<>>, <<>>, [k \in 1..Len(a.a) |-> NoHist], NoRecords)

\* the rest of the loop body once _parse_content has completed as c
ItemDone(c, h, g) ==
    LET pr  == Attach(parsedResults, results[idx], c)
        org == IF Len(pr) > Len(parsedResults) THEN Append(origin, idx) ELSE origin
    IN  Loop(entry, results, idx + 1, pr, org,
             [h EXCEPT ![idx].parse = ParseKind(c)], g)

\* _extract_text_from_pdf completes as c; _parse_content and the loop go on
ExtractDone(c, x) ==
    ItemDone(_parse_pdf_result(c, Get(results[idx], "url")), hist,
             [Records EXCEPT !.ext = [x EXCEPT !.ret = c]])

-----------------------------------------------------------------------------
(* Actions *)

Call_fetch_and_parse_results(a) ==
    /\ pc = "idle"
    /\ entry' = "fetch_and_parse_results"
    /\ EnterFetchAndParse("fetch_and_parse_results", a)
    /\ UNCHANGED <<given, calls, searched, files, now>>

Call_search_and_parse ==
    /\ pc = "idle"
    /\ entry' = "search_and_parse"
    /\ pc' = "search"
    /\ UNCHANGED <<given, calls, searched, arg, results, idx, parsedResults, origin, hist,
                   retval, gets, route, racePromise, parseMs, ext, files, now>>

\* the search request settles; search_and_parse checks what search returned
SearchReturns(o, d) ==
    /\ pc = "search"
    /\ now' = now + Min(d, timeout * 1000)
    /\ LET c == search(o, d)
       IN  /\ searched' = [k |-> IF search_try(o, d).k = "throw" THEN "failed"
                                 ELSE "answered", c |-> c]
           /\ IF c.k = "throw"
              THEN /\ pc' = "done"
                   /\ retval' = search_and_parse_catch(c)
                   /\ UNCHANGED <<arg, results, idx, parsedResults, origin, hist,
                                  gets, route, racePromise, parseMs, ext>>
              ELSE IF ~SearchShapeOk(c.v)
              THEN /\ pc' = "done"
                   /\ retval' = InvalidShapeReturn
                   /\ UNCHANGED <<arg, results, idx, parsedResults, origin, hist,
                                  gets, route, racePromise, parseMs, ext>>
              ELSE EnterFetchAndParse(entry, Get(c.v, "results"))
    /\ UNCHANGED <<given, calls, entry, files>>

\* the GET of item idx settles; the loop body runs on to its next await
FetchReturns(o, d, dp) ==
    /\ pc = "fetch"
    /\ LET url  == Get(results[idx], "url")
           t1   == now + Min(d, timeout * 1000)
           c    == _fetch_url_content(o, d)
           h    == [hist EXCEPT ![idx].fetch = FetchKind(c)]
       IN  IF c.k = "throw" \/ ~Truthy(c.v)
           THEN \* line 235 catches, line 229 skips
                /\ now' = t1
                /\ Loop(entry, results, idx + 1, parsedResults, origin, h, Records)
           ELSE IF IsPdfType(ContentTypeOf(c.v))
           THEN \* _extract_text_from_pdf names the file and awaits writeFile
                /\ now' = t1
                /\ ext' = ExtStart(t1)
                /\ pc' = "pdf_write"
                /\ hist' = h
                /\ route' = [NoRoute EXCEPT !.ct = c.v.ct, !.to = "pdf"]
                /\ UNCHANGED <<idx, parsedResults, origin, retval, gets,
                               racePromise, parseMs>>
           ELSE LET html == BufferToString(c.v.data)
                IN  IF html.k = "throw" \/ ~Truthy(html.v)
                    THEN /\ now' = t1
                         /\ ItemDone(IF html.k = "throw" THEN Throw ELSE Return(Null), h,
                                     Records)
                    ELSE \* the executor parses synchronously, then the timer
                         \* is armed and the race is awaited
                         /\ now' = t1 + dp
                         /\ parseMs' = dp
                         /\ racePromise' = parsingRace(c.v.data, url, dp)
                         /\ pc' = "html_race"
                         /\ hist' = h
                         /\ route' = [ct |-> c.v.ct, to |-> "html",
                                      tier1 |-> TierRecord(c.v.data).tier1,
                                      tier2 |-> TierRecord(c.v.data).tier2]
                         /\ UNCHANGED <<idx, parsedResults, origin, retval, gets, ext>>
    /\ UNCHANGED <<given, calls, entry, searched, arg, results, files>>

\* await Promise.race([parsingPromise, timeoutPromise]) resumes
HtmlRaceSettles ==
    /\ pc = "html_race"
    /\ LET timerFirst == racePromise.state = "pending"
           p == IF timerFirst THEN Resolve(racePromise, Null) ELSE racePromise
       IN  /\ now' = IF timerFirst THEN now + parsingTimeout * 1000 ELSE now
           /\ ItemDone(_parse_html_result(p), hist, [Records EXCEPT !.racePromise = p])
    /\ UNCHANGED <<given, calls, entry, searched, arg, results, files>>

\* fs.promises.writeFile settles
WriteFileReturns(ok) ==
    /\ pc = "pdf_write"
    /\ IF ok
       THEN /\ files' = files \cup {ext.path}
            /\ ext' = [ext EXCEPT !.wrote = TRUE, !.proc = "running"]
            /\ pc' = "pdf_exec"
            /\ UNCHANGED <<idx, parsedResults, origin, hist, retval, gets,
                           route, racePromise, parseMs>>
       ELSE /\ files' = files
            /\ ExtractDone(_extract_catch(Throw), ext)
    /\ UNCHANGED <<given, calls, entry, searched, arg, results, now>>

\* Promise.race([execAsync(command), timer]) settles
ExecRaceSettles(o, d, w) ==
    /\ pc = "pdf_exec"
    /\ w \in RaceWinners(d)
    /\ now' = now + Min(d, pdfExtractionTimeout * 1000)
    /\ IF w = "exec" /\ o.t = "exit" /\ o.code = 0
       THEN \* stderr is logged, unlink is awaited
            /\ ext' = [ext EXCEPT !.exec = "ok", !.proc = "exited",
                                  !.stdout = o.stdout]
            /\ pc' = "pdf_unlink"
            /\ UNCHANGED <<idx, parsedResults, origin, hist, retval, gets,
                           route, racePromise, parseMs>>
       ELSE \* the timer rejects while the subprocess, which needs d ms, runs on
            ExtractDone(_extract_catch(Throw),
                        [ext EXCEPT !.exec = IF w = "timer" THEN "timeout" ELSE "error",
                                    !.proc = IF w = "timer" /\ d > pdfExtractionTimeout * 1000
                                             THEN "running" ELSE "exited"])
    /\ UNCHANGED <<given, calls, entry, searched, arg, results, files>>

\* fs.promises.unlink settles
UnlinkReturns(ok) ==
    /\ pc = "pdf_unlink"
    /\ IF ok
       THEN /\ files' = files \ {ext.path}
            /\ ExtractDone(_extract_catch(Return(Str(Trim(ext.stdout)))),
                           [ext EXCEPT !.cleanup = "ok"])
       ELSE /\ files' = files
            /\ ExtractDone(_extract_catch(Throw), [ext EXCEPT !.cleanup = "error"])
    /\ UNCHANGED <<given, calls, entry, searched, arg, results, now>>

Next ==
    \/ \E a \in BatchInputs : Call_fetch_and_parse_results(a)
    \/ Call_search_and_parse
    \/ \E o \in {[t |-> "error"]} \cup {[t |-> "data", data |-> x] : x \in SearchData},
          d \in FetchDurations : SearchReturns(o, d)
    \/ \E o \in FetchOutcomes, d \in FetchDurations, dp \in ParseDurations :
          FetchReturns(o, d, dp)
    \/ HtmlRaceSettles
    \/ \E ok \in BOOLEAN : WriteFileReturns(ok)
    \/ \E o \in ExecOutcomes, d \in ExecDurations, w \in {"exec", "timer"} :
          ExecRaceSettles(o, d, w)
    \/ \E ok \in BOOLEAN : UnlinkReturns(ok)

Spec == Init /\ [][Next]_vars

-----------------------------------------------------------------------------
(* Two calls of _parse_content on one response, in flight on the same       *)
(* client.  The clock is only read to name the temp file; how long an await *)
(* takes is left open.                                                      *)

MaxClock == 2

clientVars == <<pc, entry, searched, arg, results, idx, parsedResults, origin,
                hist, retval, gets, route, racePromise, parseMs, ext>>

PdfDocument == Doc("ok", "ok", Null, LooseText)

\* the response, and what pdf2txt.py prints for its bytes when it succeeds
PairInputs ==
    {[response |-> r, stdout |-> <<>>] :
        r \in {x \in Responses : ~IsPdfType(ContentTypeOf(x))}}
    \cup {[response |-> r, stdout |-> o] :
        r \in {x \in Responses : IsPdfType(ContentTypeOf(x)) /\ x.data = PdfDocument},
        o \in Stdouts}

PairUrl == Str(UrlA)

NoCall == [pc |-> "idle", promise |-> Pending, ext |-> NoExt, ret |-> NoCompletion]

InitPair ==
    /\ InitClient
    /\ given \in PairInputs
    /\ calls = [i \in 1..2 |-> NoCall]

\* call i of _parse_content completes as c
PairReturns(i, c) ==
    calls' = [calls EXCEPT ![i] = [@ EXCEPT !.pc = "done", !.ret = c]]

\* _extract_text_from_pdf of call i completes as c, its record being x
PairExtractDone(i, c, x) ==
    calls' = [calls EXCEPT ![i] =
                 [@ EXCEPT !.pc = "done", !.ext = [x EXCEPT !.ret = c],
                           !.ret = _parse_pdf_result(c, PairUrl)]]

\* a millisecond passes
Tick ==
    /\ now < MaxClock
    /\ now' = now + 1
    /\ UNCHANGED <<clientVars, files, given, calls>>

\* _parse_content(given.response, url) is called and runs to its first await
PairCall(i, dp) ==
    /\ calls[i].pc = "idle"
    /\ LET r == given.response
       IN  IF IsPdfType(ContentTypeOf(r))
           THEN calls' = [calls EXCEPT ![i] =
                             [@ EXCEPT !.pc = "pdf_write", !.ext = ExtStart(now)]]
           ELSE LET html == BufferToString(r.data)
                IN  IF html.k = "throw" THEN PairReturns(i, Throw)
                    ELSE IF ~Truthy(html.v) THEN PairReturns(i, Return(Null))
                    ELSE calls' = [calls EXCEPT ![i] =
                                      [@ EXCEPT !.pc = "html_race",
                                                !.promise = parsingRace(r.data, PairUrl, dp)]]
    /\ UNCHANGED <<clientVars, files, now, given>>

PairHtmlRaceSettles(i) ==
    /\ calls[i].pc = "html_race"
    /\ PairReturns(i, _parse_html_result(Resolve(calls[i].promise, Null)))
    /\ UNCHANGED <<clientVars, files, now, given>>

PairWriteFileReturns(i, ok) ==
    /\ calls[i].pc = "pdf_write"
    /\ IF ok
       THEN /\ files' = files \cup {calls[i].ext.path}
            /\ calls' = [calls EXCEPT ![i] =
                             [@ EXCEPT !.pc = "pdf_exec", !.ext.wrote = TRUE,
                                       !.ext.proc = "running"]]
       ELSE /\ files' = files
            /\ PairExtractDone(i, _extract_catch(Throw), calls[i].ext)
    /\ UNCHANGED <<clientVars, now, given>>

\* the race of the converter against the 30 s timer settles; the converter
\* exits with status 0 (ok) or not, before the timer (w = "exec") or not
PairExecRaceSettles(i, ok, w) ==
    /\ calls[i].pc = "pdf_exec"
    /\ IF w = "exec" /\ ok
       THEN calls' = [calls EXCEPT ![i] =
                         [@ EXCEPT !.pc = "pdf_unlink", !.ext.exec = "ok",
                                   !.ext.proc = "exited",
                                   !.ext.stdout = given.stdout]]
       ELSE PairExtractDone(i, _extract_catch(Throw),
                [calls[i].ext EXCEPT !.exec = IF w = "timer" THEN "timeout" ELSE "error",
                                     !.proc = IF w = "timer" THEN "running" ELSE "exited"])
    /\ UNCHANGED <<clientVars, files, now, given>>

\* unlink settles; it rejects when the file is not there
PairUnlinkReturns(i, ok) ==
    /\ calls[i].pc = "pdf_unlink"
    /\ ok => calls[i].ext.path \in files
    /\ IF ok
       THEN /\ files' = files \ {calls[i].ext.path}
            /\ PairExtractDone(i, _extract_catch(Return(Str(Trim(calls[i].ext.stdout)))),
                               [calls[i].ext EXCEPT !.cleanup = "ok"])
       ELSE /\ files' = files
            /\ PairExtractDone(i, _extract_catch(Throw),
                               [calls[i].ext EXCEPT !.cleanup = "error"])
    /\ UNCHANGED <<clientVars, now, given>>

NextPair ==
    \/ Tick
    \/ \E i \in 1..2, dp \in ParseDurations : PairCall(i, dp)
    \/ \E i \in 1..2 : PairHtmlRaceSettles(i)
    \/ \E i \in 1..2, ok \in BOOLEAN : PairWriteFileReturns(i, ok)
    \/ \E i \in 1..2, ok \in BOOLEAN, w \in {"exec", "timer"} :
          PairExecRaceSettles(i, ok, w)
    \/ \E i \in 1..2, ok \in BOOLEAN : PairUnlinkReturns(i, ok)

SpecPair == InitPair /\ [][NextPair]_vars

-----------------------------------------------------------------------------
(* Vocabulary of the properties *)

Range(f) == {f[k] : k \in DOMAIN f}

InExtractor == pc \in {"pdf_write", "pdf_exec", "pdf_unlink"}

\* the item that racePromise, parseMs and ext are about: the one being
\* processed, or the last one processed when the loop is between two items
LastItem ==
    IF InExtractor \/ pc = "html_race" THEN idx
    ELSE LET S == {k \in 1..Len(results) : k < idx /\ hist[k].fetches > 0}
         IN  IF S = {} THEN 0 ELSE CHOOSE k \in S : \A m \in S : m <= k

Failed(h) == h.fetch = "null" \/ h.parse \in {"null", "threw"}

ExtractorReturned == ext.ret.k # "none"

-----------------------------------------------------------------------------
(* Properties *)

\* C1: once _extract_text_from_pdf has returned, the temp file it wrote no
\* longer exists, whichever way the extraction ended.
C1_TempFileRemoved == ExtractorReturned => ext.path \notin files

\* C2: an HTML parse that takes longer than the 15 s parsing timeout makes
\* _parse_content resolve to null, and the item is skipped.
C2_ParseTimeoutYieldsNull ==
    (pc \in {"fetch", "done"} /\ parseMs > parsingTimeout * 1000)
        => (hist[LastItem].parse = "null" /\ LastItem \notin Range(origin))

\* C3: whatever happened to the items before it, every item with a valid URL
\* the loop has passed was fetched once and, if the fetch gave a response,
\* parsed; it is in the output exactly if its own parse gave content; and the
\* loop ends only after the last item.
C3_Isolation ==
    /\ \A j \in 1..Len(results) :
          (ItemIsValid(results[j]) /\ (j < idx \/ pc = "done")) =>
              /\ hist[j].fetches = 1
              /\ hist[j].fetch # "none"
              /\ hist[j].fetch = "response" => hist[j].parse # "none"
              /\ j \in Range(origin) <=> hist[j].parse = "value"
    /\ (pc = "done" /\ IsArray(arg)) => idx = Len(results) + 1

C3_Witness ==
    /\ pc = "done"
    /\ \E i, j \in 1..Len(results) :
          /\ i < j
          /\ Failed(hist[i])
          /\ hist[j].parse = "value"
          /\ j \in Range(origin)

\* C4: every parsed_content in the output is a string of length 1 to
\* max_content_length.
C4_ContentBounded ==
    \A k \in 1..Len(parsedResults) :
        LET c == Get(parsedResults[k], "parsed_content")
        IN  /\ c.t = "string"
            /\ 0 < StrLen(c.s)
            /\ StrLen(c.s) <= max_content_length

\* an output of the PDF branch and one of the HTML branch, both truncated
C4_Witness ==
    /\ pc = "done"
    /\ Len(parsedResults) = 2
    /\ \A k \in 1..2 :
          StrLen(Get(parsedResults[k], "parsed_content").s) = max_content_length
    /\ Get(parsedResults[1], "parsed_content") # Get(parsedResults[2], "parsed_content")

\* C5: the output is an order-preserving subsequence of the input: there is a
\* strictly increasing map from output positions to input positions under
\* which every output item is its input item plus parsed_content.
C5_Subsequence ==
    /\ Len(parsedResults) <= Len(results)
    /\ \E f \in [1..Len(parsedResults) -> 1..Len(results)] :
          /\ \A k, m \in 1..Len(parsedResults) : k < m => f[k] < f[m]
          /\ \A k \in 1..Len(parsedResults) :
                /\ results[f[k]].t = "object"
                /\ Get(parsedResults[k], "url") = Get(results[f[k]], "url")
                /\ parsedResults[k] =
                      Spread(results[f[k]], "parsed_content",
                             Get(parsedResults[k], "parsed_content"))

C5_Witness ==
    /\ pc = "done"
    /\ Len(parsedResults) = 2
    /\ Get(parsedResults[1], "url") # Get(parsedResults[2], "url")

\* C6: a GET is only ever issued for a string that parses as an absolute URL;
\* an item without such a url is never fetched and never in the output.
C6_ValidatedBeforeGet ==
    /\ \A u \in gets : u.t = "string" /\ UrlParses(u.s)
    /\ \A j \in 1..Len(results) :
          LET r == results[j]
              bad == \/ ~Truthy(r)
                     \/ TypeOf(r) # "object"
                     \/ Get(r, "url").t # "string"
                     \/ ~UrlParses(Get(r, "url").s)
          IN  bad => hist[j].fetches = 0 /\ j \notin Range(origin)

C6_Witness ==
    /\ pc = "done"
    /\ Len(results) = 2
    /\ results[1] = ItemBadUrl
    /\ hist[1].fetches = 0
    /\ hist[2].fetches = 1

\* C7: search_and_parse never completes by throwing; it returns a list, and
\* the empty list when the search failed or its answer has no results array.
C7_SearchAndParseTotal ==
    entry = "search_and_parse" =>
        /\ retval.k # "throw"
        /\ pc = "done" =>
              /\ retval.k = "return"
              /\ IsArray(retval.v)
              /\ (searched.k = "failed" \/ ~SearchShapeOk(searched.c.v))
                    => retval.v.a = <<>>

C7_Witness ==
    /\ entry = "search_and_parse"
    /\ pc = "done"
    /\ searched.k = "answered"
    /\ ~SearchShapeOk(searched.c.v)
    /\ retval = Return(Arr(<<>>))

\* C8: fetch_and_parse_results called with something that is no list returns
\* the empty list at once: no item is processed, no GET issued, nothing thrown.
C8_MalformedBatch ==
    (entry = "fetch_and_parse_results" /\ ~IsArray(arg)) =>
        /\ pc = "done"
        /\ retval = Return(Arr(<<>>))
        /\ gets = {}
        /\ hist = <<>>
        /\ parsedResults = <<>>

C8_Witness ==
    /\ entry = "fetch_and_parse_results"
    /\ arg = Str(Text("x"))
    /\ pc = "done"

\* C9: an item is fetched at most once, the fetcher never throws, and an item
\* whose fetch failed is skipped: neither parsed nor in the output.
C9_SingleFetchAttempt ==
    \A j \in 1..Len(results) :
        /\ hist[j].fetches <= 1
        /\ hist[j].fetch # "threw"
        /\ hist[j].fetch = "null" =>
              hist[j].parse = "none" /\ j \notin Range(origin)
        /\ (pc = "done" /\ ItemIsValid(results[j])) => hist[j].fetches = 1

C9_Witness ==
    /\ pc = "done"
    /\ \E j \in 1..Len(results) : hist[j].fetch = "null" /\ hist[j].fetches = 1

\* C10: _extract_text_from_pdf never throws; it returns the trimmed stdout
\* when the file was written, the converter exited with status 0 before the
\* timeout and the file was removed, and null in every other case.
C10_ExtractorTotal ==
    ExtractorReturned =>
        /\ ext.ret.k = "return"
        /\ IF ext.wrote /\ ext.exec = "ok" /\ ext.cleanup = "ok"
           THEN ext.ret.v = Str(Trim(ext.stdout))
           ELSE ext.ret.v = Null

C10_Witness ==
    /\ ExtractorReturned
    /\ ext.exec = "ok"
    /\ ext.cleanup = "ok"
    /\ ext.stdout # Trim(ext.stdout)
    /\ ext.ret.v = Str(Trim(ext.stdout))
    /\ Trim(ext.stdout) # <<>>

\* a content-type token with its letters in lower case
LowerCase(c) == IF c = "Application/PDF" THEN "application/pdf" ELSE c

\* the header, absent or not, names the PDF media type in some letter case,
\* with or without parameters
NamesPdf(ct) ==
    /\ ct.t = "string"
    /\ \E k \in 1..Len(ct.s) : LowerCase(ct.s[k].c) = "application/pdf"

\* C11: a response goes to the PDF extractor exactly if its content-type
\* names the PDF media type, in any letter case and with or without
\* parameters, and to the HTML extractor otherwise.
C11_Classification ==
    route.to # "none" => (route.to = "pdf" <=> NamesPdf(route.ct))

\* C12: every output item has the fields of the input item it stems from plus
\* parsed_content; every field other than parsed_content has the value it has
\* in the input item, parsed_content is the extracted text; and the list
\* passed in, with its items, stays as the caller passed it.
C12_Frame ==
    /\ (IsArray(arg) /\ pc # "idle") => results = arg.a
    /\ Len(origin) = Len(parsedResults)
    /\ \A k \in 1..Len(parsedResults) :
          LET in  == results[origin[k]]
              out == parsedResults[k]
          IN  /\ in.t = "object"
              /\ out.t = "object"
              /\ DOMAIN out.f = (DOMAIN in.f) \cup {"parsed_content"}
              /\ \A n \in (DOMAIN in.f) \ {"parsed_content"} : out.f[n] = in.f[n]
              /\ out.f["parsed_content"].t = "string"

\* two outputs: one whose input had no parsed_content, one whose input had a
\* stale one that was replaced
C12_Witness ==
    /\ pc = "done"
    /\ Len(parsedResults) = 2
    /\ results[origin[1]] = ItemA
    /\ results[origin[2]] = ItemB
    /\ Get(parsedResults[1], "title") = Str(Text("A"))
    /\ Get(parsedResults[2], "parsed_content") # Get(ItemB, "parsed_content")

PairDone == \A i \in DOMAIN calls : calls[i].pc = "done"

\* call i went through _extract_text_from_pdf and that run failed: the file
\* was not written, the converter failed or ran into the timeout, or the
\* file could not be removed
ExtractionFailed(i) ==
    /\ calls[i].ext # NoExt
    /\ ~(calls[i].ext.wrote /\ calls[i].ext.exec = "ok" /\ calls[i].ext.cleanup = "ok")

BothTiersEmpty ==
    /\ route.to = "html"
    /\ route.tier1 \in {Undefined, Null, Str(<<>>)}
    /\ route.tier2 = Str(<<>>)

\* C14: when Readability and the cheerio fallback both give no text, the
\* promise of the parse is fulfilled with null (not rejected, and not
\* overwritten by the resolve call that follows resolve(null)),
\* _parse_content returns null and the item is not added to the output.
C14_BothTiersEmptyIsNull ==
    /\ [](BothTiersEmpty => racePromise = Fulfilled(Null))
    /\ [][BothTiersEmpty =>
            /\ hist'[idx].parse = "null"
            /\ parsedResults' = parsedResults]_vars

C14_Witness ==
    /\ pc = "html_race"
    /\ BothTiersEmpty
    /\ route.tier1 = Str(<<>>)
    /\ racePromise = Fulfilled(Null)

\* the text of the content the parse in progress resolved with
ResolvedText == Get(racePromise.value, "content")

\* C15: in the HTML branch the cheerio fallback (tier 2) is run exactly if
\* Readability (tier 1) gave no text; when tier 1 gave text, the result is
\* that text, cut to max_content_length; and the parse resolves to null for
\* lack of text only when tier 2 has been run.
C15_FallbackLaw ==
    route.to = "html" =>
        /\ route.tier2 # NotRun <=> route.tier1 \in {Undefined, Null, Str(<<>>)}
        /\ (route.tier1.t = "string" /\ route.tier1.s # <<>>) =>
              /\ route.tier2 = NotRun
              /\ racePromise.state = "fulfilled"
              /\ ResolvedText = Str(Slice(route.tier1.s, max_content_length))
        /\ racePromise = Fulfilled(Null) => route.tier2 # NotRun

\* tier 1 gave nothing, tier 2 was run and its text is the result
C15_Witness ==
    /\ pc = "html_race"
    /\ route.tier1 = Undefined
    /\ route.tier2.t = "string"
    /\ route.tier2.s # <<>>
    /\ ResolvedText = route.tier2

Attached(j) == j \in Range(origin)

\* the stages item j has been through are consistent with the order
\* Fetch -> Parse -> Attach
StagesInOrder(j) ==
    /\ hist[j].fetch # "none" => hist[j].fetches = 1 /\ ItemIsValid(results[j])
    /\ hist[j].parse # "none" => hist[j].fetch = "response"
    /\ Attached(j) => hist[j].parse = "value"
    /\ (pc \in {"html_race", "pdf_write", "pdf_exec", "pdf_unlink"} /\ j = idx) =>
          hist[j].fetch = "response" /\ hist[j].parse = "none"

\* item j has left the pipeline: it was skipped at some stage, or attached
Finished(j) ==
    \/ ~ItemIsValid(results[j]) /\ (j < idx \/ pc = "done")
    \/ hist[j].fetch \in {"null", "threw"}
    \/ hist[j].parse # "none"

\* C16: each item goes through Fetch, Parse, Attach in this order: it is
\* parsed only when its fetch gave a response, attached only when its parse
\* gave content, and once it has been skipped or attached no stage is run
\* for it again.
C16_StageOrder ==
    /\ [](\A j \in 1..Len(results) : StagesInOrder(j))
    /\ [][\A j \in 1..Len(results) :
            /\ hist[j].fetch # "none" =>
                  /\ hist'[j].fetch = hist[j].fetch
                  /\ hist'[j].fetches = hist[j].fetches
            /\ Finished(j) =>
                  /\ hist'[j] = hist[j]
                  /\ Attached(j)' <=> Attached(j)]_vars

\* one item attached after its three stages, one skipped at the parse stage
C16_Witness ==
    /\ pc = "done"
    /\ \E i, j \in 1..Len(results) :
          /\ hist[i].fetch = "response" /\ hist[i].parse = "value" /\ Attached(i)
          /\ hist[j].fetch = "response" /\ hist[j].parse = "null" /\ ~Attached(j)

\* item j is in its Fetch or Parse stage
InFlight(j) == hist[j].fetches > 0 /\ ~Finished(j)

\* C17: the items of one run are processed one after the other: at most one
\* item is in its Fetch or Parse stage, it is the one the loop is at, and the
\* GET of an item is issued only when every item before it has been attached
\* or skipped.
C17_Sequential ==
    /\ Cardinality({j \in 1..Len(results) : InFlight(j)}) <= 1
    /\ \A j \in 1..Len(results) :
          /\ InFlight(j) => j = idx /\ pc # "done"
          /\ hist[j].fetches > 0 => \A i \in 1..(j - 1) : Finished(i)

\* the second item is being fetched or parsed after the first was fetched
\* and has been attached or skipped
C17_Witness ==
    /\ Len(results) = 2
    /\ idx = 2
    /\ InFlight(2)
    /\ hist[1].fetches = 1
    /\ Finished(1)

\* C18: once _extract_text_from_pdf has returned null because the 30 s timer
\* won the race, the pdf2txt.py subprocess it launched is no longer running.
C18_NoSubprocessLeak ==
    (ExtractorReturned /\ ext.exec = "timeout") => ext.proc # "running"

\* the extractor run of call i is under way, or its subprocess still runs
ExtractionLive(i) ==
    \/ calls[i].pc \in {"pdf_write", "pdf_exec", "pdf_unlink"}
    \/ calls[i].ext.proc = "running"

\* C19: two runs of _extract_text_from_pdf whose lifetimes overlap use
\* different temp file paths.
C19_UniqueTempNames ==
    \A i, j \in DOMAIN calls :
        (i # j /\ ExtractionLive(i) /\ ExtractionLive(j)) =>
            calls[i].ext.path # calls[j].ext.path

====
